---- MODULE Spec2Model ----
(***************************************************************************)
(* Audit-entry description logic of the credentialing dashboard.           *)
(*                                                                         *)
(* ActivityTimeline.tsx renders one line per audit record with             *)
(* buildDescription(action, tableName, oldData, newData); AuditLogClient   *)
(* formats the same records for the audit-log table with its own           *)
(* toAuditAction.                                                          *)
(*                                                                         *)
(* Further components, each with a specification of its own: the           *)
(* expandable rows of the timeline and their DiffPanel (SpecDiff), the     *)
(* audit-log page with its query, filters, pagination and stats bar        *)
(* (SpecAuditLog), TruncatedTooltip with its ResizeObserver (SpecTooltip)  *)
(* and the OAuth callback route with server/auth/domain.ts (SpecOAuth).    *)
(* A specification keeps the variables of the other components idle.      *)
(*                                                                         *)
(* Strings that the code inspects or rewrites character by character       *)
(* (table names, field names, values, the summary itself) are sequences    *)
(* of one-character strings, so that replace(/_/g, " "), join(", "),       *)
(* template interpolation and JSON.stringify are computed and not          *)
(* assumed.  Action names are only ever compared with ===, so they are     *)
(* plain strings.                                                          *)
(***************************************************************************)
EXTENDS Integers, Sequences, FiniteSets, TLC

VARIABLES
    entry,            \* the audit record being shown: action, tableName, oldData, newData
    pc,               \* "fetched" before the timeline row is rendered, "rendered" after
    description,      \* the text buildDescription returned for the row (<<>> before)
    changed,          \* buildDescription's local array `changed` as it stood at return
    rowAction,        \* the timeline row's normalized action (icon and colour)
    formattedAction,  \* the action of the record as formatted by AuditLogClient
    failed,           \* whether buildDescription ended in a TypeError instead of a string
    expanded,         \* whether the id of the row is in expandedIds
    panel,            \* the DiffPanel under the row: shown or not, and its FieldDiff rows
    \* AuditLogClient
    mounted,          \* whether AuditLogClient is mounted (its mount effect has run)
    storeSize,        \* number of rows the audit store holds
    filterAction,     \* the `action` filter: "all" or an action
    currentPage,      \* the page number
    cache,            \* react-query's cache: per query input, the data and error it holds
    fetching,         \* the query inputs with a request in flight
    \* TruncatedTooltip
    tipMounted,       \* whether the TruncatedTooltip is mounted
    isTruncated,      \* its state isTruncated: the tooltip wrapper is rendered
    scrollWidth,      \* scrollWidth of the child element (the width of its text)
    clientWidth,      \* clientWidth of the child element (the width of its box)
    observed,         \* whether the ResizeObserver observes the element triggerRef holds
    notified,         \* whether the ResizeObserver has a notification to deliver
    \* the OAuth callback route
    oauthPc,          \* where GET stands: which await it is at, or "done"
    request,          \* the request: its `code` and `next` query parameters
    exchangeError,    \* whether exchangeCodeForSession returned an error
    user,             \* what getUser returned
    events,           \* the calls GET has made to Supabase, in order
    response,         \* the redirect GET returned
    appRoleStored,    \* app_metadata.app_role of the user in Supabase
    roleWrite,        \* the updateUserById call GET made: the app_role it sent, its outcome
    \* MissingDocsManager
    isEditing,        \* whether the editor is open
    editingId,        \* the id of the document being edited, or null
    form,             \* the editor's form: information, roadblocks, nextFollowUp
    saves,            \* the calls of save so far: what each captured, where it stands
    calls             \* the calls each call of save has made, in order: mutation, onChanged, resetEditor

timelineVars ==
    <<entry, pc, description, changed, rowAction, formattedAction, failed, expanded,
      panel>>
auditVars == <<mounted, storeSize, filterAction, currentPage, cache, fetching>>

tooltipVars == <<tipMounted, isTruncated, scrollWidth, clientWidth, observed, notified>>

oauthVars ==
    <<oauthPc, request, exchangeError, user, events, response, appRoleStored, roleWrite>>

missingDocsVars == <<isEditing, editingId, form, saves, calls>>

vars == <<timelineVars, auditVars, tooltipVars, oauthVars, missingDocsVars>>
notTimeline == <<auditVars, tooltipVars, oauthVars, missingDocsVars>>
notAudit == <<timelineVars, tooltipVars, oauthVars, missingDocsVars>>
notTooltip == <<timelineVars, auditVars, oauthVars, missingDocsVars>>
notOAuth == <<timelineVars, auditVars, tooltipVars, missingDocsVars>>
notMissingDocs == <<timelineVars, auditVars, tooltipVars, oauthVars>>

(***************************************************************************)
(* Bounds of the model.                                                    *)
(***************************************************************************)
\* number of ordinary (non-status, non-identifying) columns a snapshot holds
MaxFields == 4
\* number of rows of the audit store when it is large (more than one page)
MaxRows == 51
\* number of requests in flight at a time
MaxInFlight == 2
\* widest text and widest box of the truncated child, in pixels
MaxWidth == 5
\* number of times save is called
MaxSaves == 3

(***************************************************************************)
(* JavaScript values held by a snapshot.  A value is undefined (a missing  *)
(* key), null, a string, or a plain object whose own values are strings;   *)
(* an object keeps its keys in insertion order, as JSON.parse builds it.   *)
(***************************************************************************)
Undefined == [t |-> "undefined", s |-> <<>>, o |-> <<>>]
Null == [t |-> "null", s |-> <<>>, o |-> <<>>]
Str(chars) == [t |-> "string", s |-> chars, o |-> <<>>]
Obj(pairs) == [t |-> "object", s |-> <<>>, o |-> pairs]

\* A snapshot (oldData / newData) is null or a record: a sequence of
\* [k |-> field name, v |-> value] in key insertion order.
NullSnap == [isNull |-> TRUE, f |-> <<>>]
Snap(fields) == [isNull |-> FALSE, f |-> fields]

\* Object.keys(snapshot)
ObjectKeys(snap) == [i \in 1..Len(snap.f) |-> snap.f[i].k]

\* snapshot[key] on a snapshot that is not null: the value, or undefined
Get(snap, key) ==
    IF \E i \in 1..Len(snap.f) : snap.f[i].k = key
    THEN snap.f[CHOOSE i \in 1..Len(snap.f) : snap.f[i].k = key].v
    ELSE Undefined

\* snapshot?.key : undefined when the snapshot itself is null
OptGet(snap, key) == IF snap.isNull THEN Undefined ELSE Get(snap, key)

RECURSIVE Join(_, _)
\* Array.prototype.join
Join(parts, sep) ==
    IF parts = <<>> THEN <<>>
    ELSE IF Len(parts) = 1 THEN parts[1]
    ELSE parts[1] \o sep \o Join(Tail(parts), sep)

\* replace("_", " ") without the g flag touches the first underscore only
ReplaceUnderscores_FirstOnly(chars) ==
    [i \in 1..Len(chars) |->
        IF chars[i] = "_" /\ \A j \in 1..(i - 1) : chars[j] # "_" THEN " " ELSE chars[i]]

\* String.prototype.replace(/_/g, " ")
ReplaceUnderscores(chars) ==
    [i \in 1..Len(chars) |-> IF chars[i] = "_" THEN " " ELSE chars[i]]

RECURSIVE ToDecimal(_)
\* a non-negative integer interpolated into a template literal
ToDecimal(n) ==
    LET digit == <<"0", "1", "2", "3", "4", "5", "6", "7", "8", "9">>
    IN  IF n < 10 THEN <<digit[n + 1]>>
        ELSE ToDecimal(n \div 10) \o <<digit[(n % 10) + 1]>>

\* `${value}` : a string is itself, null is "null", undefined is "undefined"
TemplateString(v) ==
    CASE v.t = "string"    -> v.s
      [] v.t = "null"      -> <<"n", "u", "l", "l">>
      [] v.t = "undefined" -> <<"u", "n", "d", "e", "f", "i", "n", "e", "d">>
      [] v.t = "object"    ->
            <<"[", "o", "b", "j", "e", "c", "t", " ", "O", "b", "j", "e", "c", "t", "]">>

\* JSON.stringify of a value.  The texts of the model hold no quote, backslash
\* or control character, so a string is its characters between quotes.  An
\* object is serialized in the insertion order of its keys.  JSON.stringify
\* (undefined) is undefined, which is no string: it is <<>> here, which no
\* serialization equals.
JSONStringify(v) ==
    LET quoted(chars) == <<"\"">> \o chars \o <<"\"">>
        member(p) == quoted(p[1]) \o <<":">> \o quoted(p[2])
    IN  CASE v.t = "undefined" -> <<>>
          [] v.t = "null"      -> <<"n", "u", "l", "l">>
          [] v.t = "string"    -> quoted(v.s)
          [] v.t = "object"    ->
                <<"{">> \o Join([i \in 1..Len(v.o) |-> member(v.o[i])], <<",">>) \o <<"}">>

\* JavaScript truthiness of the values above
Truthy(v) ==
    \/ v.t = "object"
    \/ v.t = "string" /\ v.s # <<>>

(***************************************************************************)
(* Field names the code names literally.                                   *)
(***************************************************************************)
K_phase_name == <<"p", "h", "a", "s", "e", "_", "n", "a", "m", "e">>
K_state == <<"s", "t", "a", "t", "e">>
K_name == <<"n", "a", "m", "e">>
K_privilege_tier == <<"p", "r", "i", "v", "i", "l", "e", "g", "e", "_", "t", "i", "e", "r">>
K_subcategory == <<"s", "u", "b", "c", "a", "t", "e", "g", "o", "r", "y">>
K_status == <<"s", "t", "a", "t", "u", "s">>

(***************************************************************************)
(* ActivityTimeline.tsx                                                    *)
(***************************************************************************)
\* a normalizer that knows the three stored actions only
toAuditAction_NoCreate(action) ==
    IF action = "insert" THEN "insert"
    ELSE IF action = "delete" THEN "delete"
    ELSE "update"

\* the timeline's normalizer
toAuditAction(action) ==
    IF action = "create" \/ action = "insert" THEN "insert"
    ELSE IF action = "delete" THEN "delete"
    ELSE "update"

\* TABLE_LABELS, as <<table name, label>> in source order
TABLE_LABELS ==
    << << <<"p", "r", "o", "v", "i", "d", "e", "r", "s">>,
          <<"P", "r", "o", "v", "i", "d", "e", "r">> >>,
       << <<"f", "a", "c", "i", "l", "i", "t", "i", "e", "s">>,
          <<"F", "a", "c", "i", "l", "i", "t", "y">> >>,
       << <<"p", "r", "o", "v", "i", "d", "e", "r", "_", "s", "t", "a", "t", "e", "_",
            "l", "i", "c", "e", "n", "s", "e", "s">>,
          <<"S", "t", "a", "t", "e", " ", "L", "i", "c", "e", "n", "s", "e">> >>,
       << <<"p", "r", "o", "v", "i", "d", "e", "r", "_", "v", "e", "s", "t", "a", "_",
            "p", "r", "i", "v", "i", "l", "e", "g", "e", "s">>,
          <<"V", "e", "s", "t", "a", " ", "P", "r", "i", "v", "i", "l", "e", "g", "e">> >>,
       << <<"p", "r", "o", "v", "i", "d", "e", "r", "_", "f", "a", "c", "i", "l", "i", "t",
            "y", "_", "c", "r", "e", "d", "e", "n", "t", "i", "a", "l", "s">>,
          <<"P", "F", "C", " ", "C", "r", "e", "d", "e", "n", "t", "i", "a", "l">> >>,
       << <<"w", "o", "r", "k", "f", "l", "o", "w", "_", "p", "h", "a", "s", "e", "s">>,
          <<"W", "o", "r", "k", "f", "l", "o", "w", " ", "P", "h", "a", "s", "e">> >>,
       << <<"f", "a", "c", "i", "l", "i", "t", "y", "_", "c", "o", "n", "t", "a", "c", "t",
            "s">>,
          <<"C", "o", "n", "t", "a", "c", "t">> >>,
       << <<"f", "a", "c", "i", "l", "i", "t", "y", "_", "p", "r", "e", "l", "i", "v", "e",
            "_", "i", "n", "f", "o">>,
          <<"P", "r", "e", "-", "l", "i", "v", "e", " ", "I", "n", "f", "o">> >>,
       << <<"i", "n", "c", "i", "d", "e", "n", "t", "_", "l", "o", "g", "s">>,
          <<"I", "n", "c", "i", "d", "e", "n", "t">> >> >>

\* a fallback that returns the raw table name
humanizeTableName_RawFallback(table) ==
    IF \E i \in 1..Len(TABLE_LABELS) : TABLE_LABELS[i][1] = table
    THEN TABLE_LABELS[CHOOSE i \in 1..Len(TABLE_LABELS) : TABLE_LABELS[i][1] = table][2]
    ELSE table

\* TABLE_LABELS[table] ?? table.replace(/_/g, " ")
humanizeTableName(table) ==
    IF \E i \in 1..Len(TABLE_LABELS) : TABLE_LABELS[i][1] = table
    THEN TABLE_LABELS[CHOOSE i \in 1..Len(TABLE_LABELS) : TABLE_LABELS[i][1] = table][2]
    ELSE ReplaceUnderscores(table)

RECURSIVE Coalesce(_)
\* a ?? b ?? ... ?? "" : the first operand that is neither null nor undefined
Coalesce(values) ==
    IF values = <<>> THEN Str(<<>>)
    ELSE IF Head(values).t \notin {"null", "undefined"} THEN Head(values)
    ELSE Coalesce(Tail(values))

\* a probe that walks the keys of the snapshot and takes the first identifying
\* one that is set, whatever its place in the priority list
InsertName_FirstKey(newData) ==
    LET ids == {K_phase_name, K_state, K_name, K_privilege_tier, K_subcategory}
        set == { i \in 1..Len(newData.f) :
                    /\ newData.f[i].k \in ids
                    /\ newData.f[i].v.t \notin {"null", "undefined"} }
    IN  IF set = {} THEN Str(<<>>)
        ELSE newData.f[CHOOSE i \in set : \A j \in set : i <= j].v

\* the identifier of an inserted record (insert branch)
InsertName(newData) ==
    Coalesce(<< OptGet(newData, K_phase_name),
                OptGet(newData, K_state),
                OptGet(newData, K_name),
                OptGet(newData, K_privilege_tier),
                OptGet(newData, K_subcategory) >>)

\* the identifier of a deleted record (delete branch)
DeleteName(oldData) ==
    Coalesce(<< OptGet(oldData, K_phase_name),
                OptGet(oldData, K_state),
                OptGet(oldData, K_name),
                OptGet(oldData, K_privilege_tier) >>)

RECURSIVE ChangedFrom(_, _, _)
\* the loop over Object.keys(newData), from the i-th key on
ChangedFrom(oldData, newData, i) ==
    IF i > Len(newData.f) THEN <<>>
    ELSE LET key == newData.f[i].k
         IN  (IF JSONStringify(Get(oldData, key)) # JSONStringify(Get(newData, key))
              THEN <<ReplaceUnderscores(key)>>
              ELSE <<>>)
             \o ChangedFrom(oldData, newData, i + 1)

\* the loop run over Object.keys(oldData) instead
ChangedFields_OldKeys(oldData, newData) == ChangedFrom(newData, oldData, 1)

\* the array `changed` after the loop
ChangedFields(oldData, newData) == ChangedFrom(oldData, newData, 1)

\* the status test written with != null instead of !== undefined
StatusChanged_NotNull(oldData, newData) ==
    LET oldStatus == Get(oldData, K_status)
        newStatus == Get(newData, K_status)
    IN  /\ oldStatus.t \notin {"undefined", "null"}
        /\ newStatus.t \notin {"undefined", "null"}
        /\ oldStatus # newStatus

\* the status special case: both values defined and not strictly equal.  The
\* code reads both as `string | undefined`; the values of a status column are
\* strings or null, for which !== is inequality of the values.
StatusChanged(oldData, newData) ==
    LET oldStatus == Get(oldData, K_status)
        newStatus == Get(newData, K_status)
    IN  /\ oldStatus # Undefined
        /\ newStatus # Undefined
        /\ oldStatus # newStatus

\* the list/count threshold off by one
ChangedSummary_OffByOne(entity, chg) ==
    LET Updated == <<"U", "p", "d", "a", "t", "e", "d", " ">>
    IN  IF Len(chg) <= 4 THEN
            Updated \o entity \o <<":", " ">> \o Join(chg, <<",", " ">>)
        ELSE Updated \o entity \o <<":", " ">> \o ToDecimal(Len(chg))
             \o <<" ", "f", "i", "e", "l", "d", "s", " ", "c", "h", "a", "n", "g", "e", "d">>

\* the summary of an update without a status change: the changed fields by
\* name when there are at most three, their number otherwise
ChangedSummary(entity, chg) ==
    LET Updated == <<"U", "p", "d", "a", "t", "e", "d", " ">>
    IN  IF Len(chg) <= 3 THEN
            Updated \o entity \o <<":", " ">> \o Join(chg, <<",", " ">>)
        ELSE Updated \o entity \o <<":", " ">> \o ToDecimal(Len(chg))
             \o <<" ", "f", "i", "e", "l", "d", "s", " ", "c", "h", "a", "n", "g", "e", "d">>

\* a guard written with && : only both snapshots missing stops the update branch
SnapshotMissing_Both(oldData, newData) == oldData.isNull /\ newData.isNull

\* !oldData || !newData : the update branch has a snapshot missing
SnapshotMissing(oldData, newData) == oldData.isNull \/ newData.isNull

buildDescription(action, tableName, oldData, newData) ==
    LET entity == humanizeTableName(tableName)
        normalizedAction == toAuditAction(action)
        quote(v) == <<" ", "\"">> \o TemplateString(v) \o <<"\"">>
        Created == <<"C", "r", "e", "a", "t", "e", "d", " ">>
        Deleted == <<"D", "e", "l", "e", "t", "e", "d", " ">>
        Updated == <<"U", "p", "d", "a", "t", "e", "d", " ">>
    IN  IF normalizedAction = "insert" THEN
            LET name == InsertName(newData)
            IN  IF Truthy(name) THEN Created \o entity \o quote(name)
                ELSE Created \o entity
        ELSE IF normalizedAction = "delete" THEN
            LET name == DeleteName(oldData)
            IN  IF Truthy(name) THEN Deleted \o entity \o quote(name)
                ELSE Deleted \o entity
        ELSE IF SnapshotMissing(oldData, newData) THEN Updated \o entity
        ELSE LET chg == ChangedFields(oldData, newData)
             IN  IF Len(chg) = 0 THEN Updated \o entity
                 ELSE IF StatusChanged(oldData, newData) THEN
                     entity \o <<" ", "s", "t", "a", "t", "u", "s", ":", " ">>
                            \o TemplateString(Get(oldData, K_status))
                            \o <<" ", "→", " ">>
                            \o TemplateString(Get(newData, K_status))
                 ELSE ChangedSummary(entity, chg)

\* the local `changed` when buildDescription returns: the update branch fills
\* it once both snapshots are there, the other paths never create it
ChangedAtReturn(action, oldData, newData) ==
    IF toAuditAction(action) = "update" /\ ~oldData.isNull /\ ~newData.isNull
    THEN ChangedFields(oldData, newData)
    ELSE <<>>

\* an insert branch that reads newData.phase_name without ?.
UnguardedReads_Insert(action, oldData, newData) ==
    IF toAuditAction(action) = "insert" THEN <<newData>>
    ELSE IF toAuditAction(action) = "update" /\ ~SnapshotMissing(oldData, newData)
    THEN <<newData, oldData>>
    ELSE <<>>

\* The snapshots buildDescription reads a property of without ?. : the insert
\* and delete branches use ?. throughout; the update branch, once past its
\* guard, calls Object.keys(newData) and reads oldData[key], oldData.status
\* and newData.status.
UnguardedReads(action, oldData, newData) ==
    IF toAuditAction(action) = "update" /\ ~SnapshotMissing(oldData, newData)
    THEN <<newData, oldData>>
    ELSE <<>>

\* reading a property of null throws a TypeError
ThrowsTypeError(action, oldData, newData) ==
    \E i \in 1..Len(UnguardedReads(action, oldData, newData)) :
        UnguardedReads(action, oldData, newData)[i].isNull

(***************************************************************************)
(* DiffPanel.  The timeline mounts it under an expanded row; the panel's   *)
(* own source is not among the files, so its field diff follows the        *)
(* specification: one FieldDiff per key of the union of the two snapshots' *)
(* keys, newData's keys first, then the keys only oldData has; `changed`   *)
(* by structural comparison.                                               *)
(***************************************************************************)
\* structural comparison: nested objects are equal when they hold the same
\* keys with the same values, in whatever order
StructurallyEqual(a, b) ==
    IF a.t = "object" /\ b.t = "object"
    THEN /\ \A i \in 1..Len(a.o) : \E j \in 1..Len(b.o) : a.o[i] = b.o[j]
         /\ \A j \in 1..Len(b.o) : \E i \in 1..Len(a.o) : a.o[i] = b.o[j]
    ELSE a = b

\* the keys of newData in insertion order, then the keys only oldData has
FieldDiffKeys(oldData, newData) ==
    LET onlyOld(key) == \A i \in 1..Len(newData.f) : newData.f[i].k # key
    IN  ObjectKeys(newData) \o SelectSeq(ObjectKeys(oldData), onlyOld)

FieldDiffs(oldData, newData) ==
    [i \in 1..Len(FieldDiffKeys(oldData, newData)) |->
        LET key == FieldDiffKeys(oldData, newData)[i]
        IN  [fieldName |-> key,
             oldValue |-> OptGet(oldData, key),
             newValue |-> OptGet(newData, key),
             changed |-> ~StructurallyEqual(OptGet(oldData, key), OptGet(newData, key))]]

NoPanel == [shown |-> FALSE, rows |-> <<>>]

\* a panel mounted only when both snapshots are there
DiffPanelShown_BothSnapshots(isExpanded, oldData, newData) ==
    isExpanded /\ ~oldData.isNull /\ ~newData.isNull

\* isExpanded && (oldData || newData)
DiffPanelShown(isExpanded, oldData, newData) ==
    isExpanded /\ (~oldData.isNull \/ ~newData.isNull)

(***************************************************************************)
(* AuditLogClient.tsx                                                      *)
(***************************************************************************)
ACTION_VALUES == <<"insert", "update", "delete">>

\* the audit-log table's normalizer
AuditLogClient_toAuditAction(action) ==
    IF \E i \in 1..Len(ACTION_VALUES) : ACTION_VALUES[i] = action
    THEN action
    ELSE "update"

PAGE_SIZE == 50

\* the values of the action filter the model exercises
ActionFilters == {"all", "insert"}

\* the i-th row of the audit store, oldest first: the three actions in turn,
\* written by three users and, every fourth row, by no known actor
StoreRow(i) ==
    [action |-> ACTION_VALUES[(i % 3) + 1],
     actorEmail |-> IF i % 4 = 0 THEN <<>> ELSE <<<<"a">>, <<"b">>, <<"c">>>>[i % 4]]

\* actorEmail is null
NoActor(row) == row.actorEmail = <<>>

\* the rows the filters select; action: action !== "all" ? action : undefined
Matching(filter, size) ==
    LET selected(row) == filter = "all" \/ row.action = filter
    IN  SelectSeq([i \in 1..size |-> StoreRow(i)], selected)

MinInt(a, b) == IF a <= b THEN a ELSE b
MaxInt(a, b) == IF a >= b THEN a ELSE b
\* Math.ceil(a / b) for a >= 0, b > 0
CeilDiv(a, b) == (a + b - 1) \div b

\* api.auditLog.list as the client uses it: `limit` rows from `offset` on of
\* the rows the filters select, and the number of all selected rows
ListAuditLogs(input, size) ==
    LET all == Matching(input.action, size)
    IN  [rows |-> IF input.offset >= Len(all) THEN <<>>
                  ELSE SubSeq(all, input.offset + 1,
                              MinInt(input.offset + input.limit, Len(all))),
         total |-> Len(all)]

\* the input of the query as the component renders it
QueryInput(filter, page) ==
    [action |-> filter, limit |-> PAGE_SIZE, offset |-> (page - 1) * PAGE_SIZE]

StoreSizes == {3, MaxRows}
Pages == 1..MaxInt(1, CeilDiv(MaxRows, PAGE_SIZE))
QueryInputs == { QueryInput(f, p) : f \in ActionFilters, p \in Pages }

\* a query nobody fetched yet
NoData == [hasData |-> FALSE, size |-> 0, error |-> FALSE]

\* what useQuery returns for the current input
Query == cache[QueryInput(filterAction, currentPage)]
QueryError == Query.error
\* data: undefined until a fetch of this very input succeeded
HasResult == Query.hasData
Result == ListAuditLogs(QueryInput(filterAction, currentPage), Query.size)
\* isLoading: a first fetch of the current input is under way
IsLoading == QueryInput(filterAction, currentPage) \in fetching /\ ~HasResult

\* result?.rows ?? []  and  result?.total ?? 0
AuditLogs == IF HasResult THEN Result.rows ELSE <<>>
TotalCount == IF HasResult THEN Result.total ELSE 0

\* auditLogs.filter((log) => log.action === value).length
CountAction(rows, value) ==
    Cardinality({ i \in 1..Len(rows) : rows[i].action = value })

\* the stats bar
InsertCount == CountAction(AuditLogs, "insert")
UpdateCount == CountAction(AuditLogs, "update")
DeleteCount == CountAction(AuditLogs, "delete")
UniqueUsers ==
    Cardinality({ AuditLogs[i].actorEmail : i \in 1..Len(AuditLogs) } \ {<<>>})

\* the pagination bar is part of the page
PaginationShown == mounted /\ ~QueryError /\ ~IsLoading /\ Len(AuditLogs) > 0

\* AuditLogClient is not on screen
AuditLogIdle ==
    /\ mounted = FALSE
    /\ storeSize = 3
    /\ filterAction = "all"
    /\ currentPage = 1
    /\ cache = [q \in QueryInputs |-> NoData]
    /\ fetching = {}

(***************************************************************************)
(* truncated-tooltip.tsx                                                   *)
(***************************************************************************)
\* el.scrollWidth > el.clientWidth
Truncated(sw, cw) == sw > cw

\* no TruncatedTooltip on screen
TooltipIdle ==
    /\ tipMounted = FALSE
    /\ isTruncated = FALSE
    /\ scrollWidth = 1
    /\ clientWidth = 1
    /\ observed = FALSE
    /\ notified = FALSE

(***************************************************************************)
(* server/auth/domain.ts                                                   *)
(***************************************************************************)
UpperCase ==
    <<"A", "B", "C", "D", "E", "F", "G", "H", "I", "J", "K", "L", "M", "N", "O", "P", "Q", "R", "S", "T", "U", "V", "W", "X", "Y", "Z">>
LowerCase ==
    <<"a", "b", "c", "d", "e", "f", "g", "h", "i", "j", "k", "l", "m", "n", "o", "p", "q", "r", "s", "t", "u", "v", "w", "x", "y", "z">>

\* String.prototype.toLowerCase
ToLowerCase(chars) ==
    [i \in 1..Len(chars) |->
        IF \E n \in 1..Len(UpperCase) : UpperCase[n] = chars[i]
        THEN LowerCase[CHOOSE n \in 1..Len(UpperCase) : UpperCase[n] = chars[i]]
        ELSE chars[i]]

RECURSIVE SplitOn(_, _)
\* String.prototype.split(separator), separator one character
SplitOn(chars, separator) ==
    IF \A i \in 1..Len(chars) : chars[i] # separator THEN <<chars>>
    ELSE LET at == CHOOSE i \in 1..Len(chars) :
                      chars[i] = separator /\ \A j \in 1..(i - 1) : chars[j] # separator
         IN  <<SubSeq(chars, 1, at - 1)>>
                 \o SplitOn(SubSeq(chars, at + 1, Len(chars)), separator)

\* String.prototype.startsWith and endsWith
StartsWith(chars, prefix) ==
    Len(chars) >= Len(prefix) /\ SubSeq(chars, 1, Len(prefix)) = prefix
EndsWith(chars, suffix) ==
    /\ Len(chars) >= Len(suffix)
    /\ SubSeq(chars, Len(chars) - Len(suffix) + 1, Len(chars)) = suffix

allowedDomains ==
    << <<"v", "e", "s", "t", "a", "s", "o", "l", "u", "t", "i", "o", "n", "s", ".", "c", "o", "m">>,
       <<"v", "e", "s", "t", "a", "t", "e", "l", "e", "m", "e", "d", ".", "c", "o", "m">> >>

\* an email address, or the undefined / null of a user without one
NoEmail == [given |-> FALSE, s |-> <<>>]
Email(chars) == [given |-> TRUE, s |-> chars]

\* if (!email) return false; const [, domain = ""] = email.toLowerCase().split("@")
isAllowedEmail(email) ==
    IF ~email.given \/ email.s = <<>> THEN FALSE
    ELSE LET parts == SplitOn(ToLowerCase(email.s), "@")
             domain == IF Len(parts) >= 2 THEN parts[2] ELSE <<>>
         IN  \E i \in 1..Len(allowedDomains) : allowedDomains[i] = domain

\* metadataRole as getAppRole is given it: absent, or a string
NoMetadataRole == [given |-> FALSE, s |-> <<>>]

getAppRole(email, metadataRole) ==
    LET role == IF metadataRole.given THEN ToLowerCase(metadataRole.s) ELSE <<>>
    IN  IF metadataRole.given /\ role = <<"s", "u", "p", "e", "r", "a", "d", "m", "i", "n">> THEN "superadmin"
        ELSE IF metadataRole.given /\ role = <<"a", "d", "m", "i", "n">> THEN "admin"
        ELSE IF metadataRole.given /\ role = <<"u", "s", "e", "r">> THEN "user"
        ELSE IF email.given
                /\ EndsWith(ToLowerCase(email.s), <<"@", "v", "e", "s", "t", "a", "s", "o", "l", "u", "t", "i", "o", "n", "s", ".", "c", "o", "m">>)
        THEN "admin"
        ELSE "user"

(***************************************************************************)
(* app/auth/callback/route.ts                                              *)
(***************************************************************************)
\* a query parameter: searchParams.get returns null when it is absent
NoParam == [given |-> FALSE, s |-> <<>>]
Param(chars) == [given |-> TRUE, s |-> chars]

\* a string is truthy when it is there and not empty
TruthyParam(param) == param.given /\ param.s # <<>>

nextPath(rawNextPath) ==
    IF /\ TruthyParam(rawNextPath)
       /\ StartsWith(rawNextPath.s, <<"/">>)
       /\ ~StartsWith(rawNextPath.s, <<"/", "/">>)
    THEN rawNextPath.s
    ELSE <<"/">>

\* getUser: no user, or a user with or without an email
NoUser == [isNull |-> TRUE, email |-> NoEmail]
User(email) == [isNull |-> FALSE, email |-> email]

\* the host of baseUrl
BaseHost == <<"a", "p", "p", ".", "t", "e", "s", "t">>

\* new URL(input, baseUrl) for an input that starts with "/", as nextPath
\* always does, and an http(s) base.  The URL parser removes every tab and
\* newline from the input, and for an http(s) URL reads "\" as "/": an input
\* whose first two characters are then slashes names its own host (all
\* further slashes are skipped, the host runs to the next "/", "\", "?" or
\* "#", after any userinfo and before any port), and an empty host there is
\* a TypeError; any other input keeps the host of the base.
IsSlash(c) == c \in {"/", "\\"}

StripTabNewline(chars) ==
    LET kept(c) == c \notin {"\t", "\n", "\r"}
    IN  SelectSeq(chars, kept)

RECURSIVE SkipSlashes(_)
SkipSlashes(chars) ==
    IF chars # <<>> /\ IsSlash(Head(chars)) THEN SkipSlashes(Tail(chars)) ELSE chars

RECURSIVE UpTo(_, _)
\* the characters in front of the first one of `stops`
UpTo(chars, stops) ==
    IF chars = <<>> \/ Head(chars) \in stops THEN <<>>
    ELSE <<Head(chars)>> \o UpTo(Tail(chars), stops)

\* the host of an authority: after the last "@", in front of the port
HostOfAuthority(authority) ==
    LET parts == SplitOn(authority, "@")
    IN  ToLowerCase(UpTo(parts[Len(parts)], {":"}))

NewURL(input, baseHost) ==
    LET cleaned == StripTabNewline(input)
    IN  IF Len(cleaned) >= 2 /\ IsSlash(cleaned[1]) /\ IsSlash(cleaned[2])
        THEN LET host ==
                    HostOfAuthority(UpTo(SkipSlashes(cleaned), {"/", "\\", "?", "#"}))
             IN  [ok |-> host # <<>>, host |-> host]
        ELSE [ok |-> TRUE, host |-> baseHost]

NoResponse == [kind |-> "none", error |-> "", path |-> <<>>, host |-> <<>>]
\* NextResponse.redirect(new URL("/?error=<error>", baseUrl))
ErrorRedirect(error) ==
    [kind |-> "error", error |-> error, path |-> <<"/">>, host |-> BaseHost]
\* NextResponse.redirect(new URL(nextPath, baseUrl))
NextRedirect(path) ==
    [kind |-> "next", error |-> "", path |-> path, host |-> NewURL(path, BaseHost).host]

\* a check that lets every user with an account through
DomainRejected_NoUserOnly(u) == u.isNull

\* !user || !isAllowedEmail(user.email)
DomainRejected(u) == u.isNull \/ ~isAllowedEmail(u.email)

\* updateUserById has not been called
NoRoleWrite == [called |-> FALSE, role |-> "none", error |-> FALSE]

\* no callback request is being served
OAuthIdle ==
    /\ oauthPc = "idle"
    /\ request = [code |-> NoParam, next |-> NoParam]
    /\ exchangeError = FALSE
    /\ user = NoUser
    /\ events = <<>>
    /\ response = NoResponse
    /\ appRoleStored = "none"
    /\ roleWrite = NoRoleWrite

(***************************************************************************)
(* comm-logs/MissingDocsManager.tsx                                        *)
(***************************************************************************)
RECURSIVE TrimStart(_)
TrimStart(chars) ==
    IF chars # <<>> /\ Head(chars) \in {" ", "\t", "\n"} THEN TrimStart(Tail(chars)) ELSE chars

RECURSIVE TrimEnd(_)
TrimEnd(chars) ==
    IF chars # <<>> /\ chars[Len(chars)] \in {" ", "\t", "\n"}
    THEN TrimEnd(SubSeq(chars, 1, Len(chars) - 1))
    ELSE chars

\* String.prototype.trim
Trim(chars) == TrimEnd(TrimStart(chars))

\* a nullable string: a field of a document, editingId (null while creating)
NullString == [given |-> FALSE, s |-> <<>>]
String(chars) == [given |-> TRUE, s |-> chars]

\* value ?? ""
OrEmpty(value) == IF value.given THEN value.s ELSE <<>>
\* value || undefined
OrUndefined(chars) == IF chars = <<>> THEN NullString ELSE String(chars)

defaultForm == [information |-> <<>>, roadblocks |-> <<>>, nextFollowUp |-> <<>>]

\* !form.information.trim()
InformationBlank(f) == Trim(f.information) = <<>>

\* if (editingId): an id that is there and not empty
EditingIdSet(id) == id.given /\ id.s # <<>>

\* the Save button: disabled={isMutating || !form.information.trim()}, where
\* isMutating is createMutation.isPending || updateMutation.isPending
SaveDisabled ==
    \/ \E i \in 1..Len(saves) : saves[i].stage = "mutating"
    \/ InformationBlank(form)

\* the payload of the mutation
Payload(f) ==
    [information |-> f.information,
     roadblocks |-> OrUndefined(f.roadblocks),
     nextFollowUp |-> OrUndefined(f.nextFollowUp),
     followUpStatus |-> "Not Completed"]

\* no MissingDocsManager on screen
MissingDocsIdle ==
    /\ isEditing = FALSE
    /\ editingId = NullString
    /\ form = defaultForm
    /\ saves = <<>>
    /\ calls = <<>>

(***************************************************************************)
(* The audit records the pages are given.  The audit store writes a row    *)
(* per change of a tracked table; the records below are the rows whose     *)
(* description the code decides case by case.                              *)
(***************************************************************************)
RECURSIVE Flatten(_)
Flatten(seqs) == IF seqs = <<>> THEN <<>> ELSE Head(seqs) \o Flatten(Tail(seqs))

Reverse(seq) == [i \in 1..Len(seq) |-> seq[Len(seq) + 1 - i]]

Field(key, value) == [k |-> key, v |-> value]

Record(a, t, o, n) == [action |-> a, tableName |-> t, oldData |-> o, newData |-> n]

\* one table with a label and one without
SampleTables == { TABLE_LABELS[3][1], <<"c", "o", "m", "m", "_", "l", "o", "g", "s">> }

\* table names without a label
UnlabelledTables ==
    { <<"c", "o", "m", "m", "_", "l", "o", "g", "s">>,
      <<"m", "i", "s", "s", "i", "n", "g", "_", "d", "o", "c", "s">>,
      <<"u", "s", "e", "r", "s">>,
      <<"p", "r", "o", "v", "i", "d", "e", "r", "_", "m", "i", "s", "s", "i", "n", "g", "_",
        "d", "o", "c", "s">>,
      <<"P", "r", "o", "v", "i", "d", "e", "r", "s">> }

AllTables == { TABLE_LABELS[i][1] : i \in 1..Len(TABLE_LABELS) } \cup UnlabelledTables

\* action strings an audit row may carry
ActionStrings == {"insert", "update", "delete", "create", "archive", "INSERT", ""}

\* Identifying columns in the column order of a row (not the order in which
\* buildDescription probes them), each with the value it holds when set.
IdColumns ==
    << <<K_name, <<"D", "r", ".", " ", "X">> >>,
       <<K_state, <<"C", "A">> >>,
       <<K_subcategory, <<"L", "o", "c", "u", "m", "s">> >>,
       <<K_privilege_tier, <<"T", "i", "e", "r", " ", "1">> >>,
       <<K_phase_name, <<"I", "n", "t", "a", "k", "e">> >> >>

\* what a column of a snapshot may hold
IdChoices == {"absent", "null", "empty", "value"}

IdSnap(c) ==
    Snap(Flatten([i \in 1..Len(IdColumns) |->
        CASE c[i] = "absent" -> <<>>
          [] c[i] = "null"   -> <<Field(IdColumns[i][1], Null)>>
          [] c[i] = "empty"  -> <<Field(IdColumns[i][1], Str(<<>>))>>
          [] c[i] = "value"  -> <<Field(IdColumns[i][1], Str(IdColumns[i][2]))>>]))

IdSnaps == { IdSnap(c) : c \in [1..Len(IdColumns) -> IdChoices] }

\* the other snapshot of an insert or delete row: missing, or a row that has
\* identifiers of its own
OtherSnaps ==
    { NullSnap,
      Snap(<<Field(K_name, Str(<<"Q">>)), Field(K_subcategory, Str(<<"R">>))>>) }

InsertDeleteRecords ==
    { Record("insert", t, o, n) : t \in SampleTables, o \in OtherSnaps, n \in IdSnaps }
    \cup
    { Record("delete", t, o, n) : t \in SampleTables, o \in IdSnaps, n \in OtherSnaps }

\* ordinary columns, in column order
GenericFields ==
    << <<"n", "o", "t", "e", "s">>,
       <<"d", "u", "e", "_", "d", "a", "t", "e">>,
       <<"l", "a", "s", "t", "_", "u", "p", "d", "a", "t", "e", "d", "_", "b", "y">>,
       <<"n", "p", "i">>,
       <<"i", "s", "_", "a", "c", "t", "i", "v", "e">>,
       <<"e", "m", "a", "i", "l">> >>

\* what an update did to a column: kept its value, gave it another value,
\* added the column, or dropped it
ColumnCases == {"same", "changed", "added", "removed"}

OldColumns(c) ==
    Flatten([i \in DOMAIN c |->
        IF c[i] \in {"same", "changed", "removed"}
        THEN <<Field(GenericFields[i], Str(<<"x">>))>> ELSE <<>>])

NewColumns(c) ==
    Flatten([i \in DOMAIN c |->
        CASE c[i] = "same" -> <<Field(GenericFields[i], Str(<<"x">>))>>
          [] c[i] \in {"changed", "added"} -> <<Field(GenericFields[i], Str(<<"y">>))>>
          [] c[i] = "removed" -> <<>>])

StatusColumn(choice) ==
    CASE choice = "absent"   -> <<>>
      [] choice = "null"     -> <<Field(K_status, Null)>>
      [] choice = "Pending"  -> <<Field(K_status, Str(<<"P", "e", "n", "d", "i", "n", "g">>))>>
      [] choice = "Approved" ->
            <<Field(K_status, Str(<<"A", "p", "p", "r", "o", "v", "e", "d">>))>>

\* what an update did to the status column: <<old, new>>
StatusCases ==
    { <<"absent", "absent">>, <<"absent", "Pending">>, <<"absent", "null">>,
      <<"Pending", "absent">>, <<"null", "Pending">>, <<"Pending", "null">>,
      <<"null", "null">>, <<"Pending", "Pending">>, <<"Pending", "Approved">> }

\* update rows over the status column and MaxFields ordinary columns; the new
\* snapshot lists its keys in column order or in the opposite order
UpdateRecords ==
    { Record("update", t,
             Snap(StatusColumn(st[1]) \o OldColumns(c)),
             Snap(IF rev THEN Reverse(StatusColumn(st[2]) \o NewColumns(c))
                  ELSE StatusColumn(st[2]) \o NewColumns(c))) :
        t \in SampleTables, st \in StatusCases,
        c \in [1..MaxFields -> ColumnCases], rev \in BOOLEAN }

\* a column holding a nested object, whose keys may come in either order
K_address == <<"a", "d", "d", "r", "e", "s", "s">>
AddressCity == <<<<"c", "i", "t", "y">>, <<"A">>>>
AddressZip == <<<<"z", "i", "p">>, <<"1">>>>
AddressZipMoved == <<<<"z", "i", "p">>, <<"2">>>>

AddressCases ==
    { <<<<Obj(<<AddressCity, AddressZip>>)>>, <<Obj(<<AddressCity, AddressZip>>)>>>>,
      <<<<Obj(<<AddressCity, AddressZip>>)>>, <<Obj(<<AddressZip, AddressCity>>)>>>>,
      <<<<Obj(<<AddressCity, AddressZip>>)>>, <<Obj(<<AddressCity, AddressZipMoved>>)>>>>,
      <<<<Obj(<<AddressCity, AddressZip>>)>>, <<Obj(<<AddressCity>>)>>>>,
      <<<<Obj(<<AddressCity, AddressZip>>)>>, <<Null>>>>,
      <<<<>>, <<Obj(<<AddressCity, AddressZip>>)>>>>,
      <<<<Obj(<<AddressCity, AddressZip>>)>>, <<>>>> }

NestedRecords ==
    { Record("update", t,
             Snap([i \in 1..Len(a[1]) |-> Field(K_address, a[1][i])] \o OldColumns(c)),
             Snap(IF rev
                  THEN Reverse([i \in 1..Len(a[2]) |-> Field(K_address, a[2][i])]
                               \o NewColumns(c))
                  ELSE [i \in 1..Len(a[2]) |-> Field(K_address, a[2][i])]
                       \o NewColumns(c))) :
        t \in SampleTables, a \in AddressCases, c \in [1..2 -> ColumnCases],
        rev \in BOOLEAN }

\* rows of every table and of every action string, over a few snapshots
FewSnaps ==
    { NullSnap,
      Snap(<<>>),
      Snap(<<Field(K_name, Str(<<"Q">>)), Field(K_status, Str(<<"O", "n">>))>>),
      Snap(<<Field(K_status, Str(<<"O", "f", "f">>)), Field(K_name, Str(<<"Q">>))>>) }

TableRecords ==
    { Record(a, t, o, n) :
        a \in {"insert", "update", "delete"}, t \in AllTables,
        o \in FewSnaps, n \in FewSnaps }

ActionRecords ==
    { Record(a, t, o, n) :
        a \in ActionStrings, t \in SampleTables, o \in FewSnaps, n \in FewSnaps }

AuditRecords ==
    InsertDeleteRecords \cup UpdateRecords \cup NestedRecords
        \cup TableRecords \cup ActionRecords

(***************************************************************************)
(* The pages as a state machine: a fetched audit row is rendered by the    *)
(* timeline and formatted by the audit-log table.                          *)
(***************************************************************************)
Init ==
    /\ entry \in AuditRecords
    /\ pc = "fetched"
    /\ description = <<>>
    /\ changed = <<>>
    /\ rowAction = "none"
    /\ formattedAction = "none"
    /\ failed = FALSE
    /\ expanded = FALSE
    /\ panel = NoPanel
    /\ AuditLogIdle
    /\ TooltipIdle
    /\ OAuthIdle
    /\ MissingDocsIdle

\* ActivityTimeline: entries.map(...) renders the row of the entry
\* a rendering that reorders the keys of newData in place
Render_ReordersInPlace ==
    /\ pc = "fetched"
    /\ pc' = "rendered"
    /\ rowAction' = toAuditAction(entry.action)
    /\ failed' = ThrowsTypeError(entry.action, entry.oldData, entry.newData)
    /\ description' =
          IF ThrowsTypeError(entry.action, entry.oldData, entry.newData) THEN <<>>
          ELSE buildDescription(entry.action, entry.tableName, entry.oldData,
                                entry.newData)
    /\ changed' = ChangedAtReturn(entry.action, entry.oldData, entry.newData)
    /\ entry' = [entry EXCEPT !.newData = Snap(Reverse(entry.newData.f))]
    /\ UNCHANGED <<formattedAction, expanded, panel>>
    /\ UNCHANGED notTimeline

\* entries.map: one row of the timeline is rendered
Render ==
    /\ pc = "fetched"
    /\ pc' = "rendered"
    /\ rowAction' = toAuditAction(entry.action)
    /\ failed' = ThrowsTypeError(entry.action, entry.oldData, entry.newData)
    /\ description' =
          IF ThrowsTypeError(entry.action, entry.oldData, entry.newData) THEN <<>>
          ELSE buildDescription(entry.action, entry.tableName, entry.oldData,
                                entry.newData)
    /\ changed' = ChangedAtReturn(entry.action, entry.oldData, entry.newData)
    /\ UNCHANGED <<entry, formattedAction, expanded, panel>>
    /\ UNCHANGED notTimeline

\* AuditLogClient: formatAuditLogRecord normalizes the action of the row
FormatAuditLogRecord ==
    /\ formattedAction = "none"
    /\ formattedAction' = AuditLogClient_toAuditAction(entry.action)
    /\ UNCHANGED <<entry, pc, description, changed, rowAction, failed, expanded, panel>>
    /\ UNCHANGED notTimeline

\* toggleExpand(entry.id): the id enters or leaves expandedIds, and the row
\* is rendered again with or without its DiffPanel
ToggleExpand ==
    /\ pc = "rendered"
    /\ expanded' = ~expanded
    /\ panel' =
          IF DiffPanelShown(~expanded, entry.oldData, entry.newData)
          THEN [shown |-> TRUE, rows |-> FieldDiffs(entry.oldData, entry.newData)]
          ELSE NoPanel
    /\ UNCHANGED <<entry, pc, description, changed, rowAction, formattedAction, failed>>
    /\ UNCHANGED notTimeline

Next == Render \/ FormatAuditLogRecord

(***************************************************************************)
(* The audit-log page: AuditLogClient over the audit store.                *)
(***************************************************************************)
\* no timeline on this page
TimelineIdle ==
    /\ entry = Record("update", TABLE_LABELS[1][1], NullSnap, NullSnap)
    /\ pc = "unmounted"
    /\ description = <<>>
    /\ changed = <<>>
    /\ rowAction = "none"
    /\ formattedAction = "none"
    /\ failed = FALSE
    /\ expanded = FALSE
    /\ panel = NoPanel

InitAuditLog ==
    /\ TimelineIdle
    /\ TooltipIdle
    /\ OAuthIdle
    /\ MissingDocsIdle
    /\ mounted = FALSE
    /\ storeSize \in StoreSizes
    /\ filterAction = "all"
    /\ currentPage = 1
    /\ cache = [q \in QueryInputs |-> NoData]
    /\ fetching = {}

\* refetch(): a request for the current input goes out; a query without
\* data drops its error when the request starts
Refetch ==
    LET input == QueryInput(filterAction, currentPage)
    IN  /\ Cardinality(fetching \cup {input}) <= MaxInFlight
        /\ fetching' = fetching \cup {input}
        /\ cache' = [cache EXCEPT ![input].error = cache[input].hasData /\ cache[input].error]

\* the mount effect: useEffect(() => { void refetch(); }, [refetch])
Mount ==
    /\ ~mounted
    /\ mounted' = TRUE
    /\ Refetch
    /\ UNCHANGED <<storeSize, filterAction, currentPage>>
    /\ UNCHANGED notAudit

\* handleLoad, from the Load button of the filter section
Load ==
    /\ mounted
    /\ Refetch
    /\ UNCHANGED <<mounted, storeSize, filterAction, currentPage>>
    /\ UNCHANGED notAudit

\* handleLoad, from the Retry button of the error view
Retry ==
    /\ mounted /\ QueryError
    /\ Refetch
    /\ UNCHANGED <<mounted, storeSize, filterAction, currentPage>>
    /\ UNCHANGED notAudit

\* a request comes back with the page and the total as the store has them
FetchSucceeds ==
    \E input \in fetching :
        /\ fetching' = fetching \ {input}
        /\ cache' = [cache EXCEPT ![input] =
                        [hasData |-> TRUE, size |-> storeSize, error |-> FALSE]]
        /\ UNCHANGED <<mounted, storeSize, filterAction, currentPage>>
        /\ UNCHANGED notAudit

\* a request fails: the query keeps the data it had and holds the error
FetchFails ==
    \E input \in fetching :
        /\ fetching' = fetching \ {input}
        /\ cache' = [cache EXCEPT ![input].error = TRUE]
        /\ UNCHANGED <<mounted, storeSize, filterAction, currentPage>>
        /\ UNCHANGED notAudit

\* onActionChange={setAction}
SetAction ==
    \E value \in ActionFilters \ {filterAction} :
        /\ mounted
        /\ filterAction' = value
        /\ UNCHANGED <<mounted, storeSize, currentPage, cache, fetching>>
        /\ UNCHANGED notAudit

\* handleClearAll
HandleClearAll ==
    /\ mounted
    /\ currentPage' = 1
    /\ filterAction' = "all"
    /\ UNCHANGED <<mounted, storeSize, cache, fetching>>
    /\ UNCHANGED notAudit

\* the Previous button: disabled={currentPage === 1 || isLoading}
Previous ==
    /\ PaginationShown
    /\ ~(currentPage = 1 \/ IsLoading)
    /\ currentPage' = MaxInt(1, currentPage - 1)
    /\ UNCHANGED <<mounted, storeSize, filterAction, cache, fetching>>
    /\ UNCHANGED notAudit

\* a Next button that also fetches the page it goes to
NextPage_Refetches ==
    /\ PaginationShown
    /\ ~(currentPage >= CeilDiv(TotalCount, PAGE_SIZE) \/ IsLoading)
    /\ currentPage' = MinInt(CeilDiv(TotalCount, PAGE_SIZE), currentPage + 1)
    /\ fetching' = fetching \cup {QueryInput(filterAction, currentPage')}
    /\ UNCHANGED <<mounted, storeSize, filterAction, cache>>
    /\ UNCHANGED notAudit

\* the Next button:
\* disabled={currentPage >= Math.ceil(totalCount / PAGE_SIZE) || isLoading}
NextPage ==
    /\ PaginationShown
    /\ ~(currentPage >= CeilDiv(TotalCount, PAGE_SIZE) \/ IsLoading)
    /\ currentPage' = MinInt(CeilDiv(TotalCount, PAGE_SIZE), currentPage + 1)
    /\ UNCHANGED <<mounted, storeSize, filterAction, cache, fetching>>
    /\ UNCHANGED notAudit

\* tracked tables change: the audit store gains rows, or the retention job
\* leaves few
StoreChanges ==
    \E size \in StoreSizes \ {storeSize} :
        /\ storeSize' = size
        /\ UNCHANGED <<mounted, filterAction, currentPage, cache, fetching>>
        /\ UNCHANGED notAudit

NextAuditLog ==
    \/ Mount \/ Load \/ Retry \/ FetchSucceeds \/ FetchFails
    \/ SetAction \/ HandleClearAll \/ Previous \/ NextPage \/ StoreChanges
SpecAuditLog == InitAuditLog /\ [][NextAuditLog]_vars

(***************************************************************************)
(* A TruncatedTooltip around a child whose box is resized by the layout.   *)
(***************************************************************************)
InitTooltip ==
    /\ TimelineIdle
    /\ AuditLogIdle
    /\ OAuthIdle
    /\ MissingDocsIdle
    /\ tipMounted = FALSE
    /\ isTruncated = FALSE
    /\ scrollWidth \in 1..MaxWidth
    /\ clientWidth \in 1..MaxWidth
    /\ observed = FALSE
    /\ notified = FALSE

\* setIsTruncated(value) and the render that follows.  The two renderings
\* have different roots (the child itself, or TooltipProvider around it), so
\* a change of isTruncated unmounts the child's element and mounts a new one;
\* triggerRef then holds the new element.  The effect has [checkTruncation]
\* as its dependencies and does not run again: an observer that observed the
\* old element still does, and is notified once more of that element's box
\* (now detached, of size zero).
SetIsTruncated(value, wasObserved) ==
    /\ isTruncated' = value
    /\ observed' = (wasObserved /\ value = isTruncated)
    /\ notified' = (wasObserved /\ value # isTruncated)

\* first render (isTruncated is false: the child alone), then the effect:
\* checkTruncation(), new ResizeObserver(checkTruncation), observe(el)
TooltipMount ==
    /\ ~tipMounted
    /\ tipMounted' = TRUE
    /\ isTruncated' = Truncated(scrollWidth, clientWidth)
    /\ observed' = ~Truncated(scrollWidth, clientWidth)
    \* observe(el) reports the element once, unless the render that follows
    \* setIsTruncated(true) has taken it out of the document by then
    /\ notified' \in (IF Truncated(scrollWidth, clientWidth) THEN BOOLEAN ELSE {TRUE})
    /\ UNCHANGED <<scrollWidth, clientWidth>>
    /\ UNCHANGED notTooltip

\* the layout gives the child's box another width; the observer hears of it
\* when the element it observes is the one in the document
Resize ==
    \E width \in (1..MaxWidth) \ {clientWidth} :
        /\ tipMounted
        /\ clientWidth' = width
        /\ notified' = (notified \/ observed)
        /\ UNCHANGED <<tipMounted, isTruncated, scrollWidth, observed>>
        /\ UNCHANGED notTooltip

\* the ResizeObserver calls checkTruncation, which reads triggerRef.current
ObserverCallback ==
    /\ tipMounted /\ notified
    /\ SetIsTruncated(Truncated(scrollWidth, clientWidth), observed)
    /\ UNCHANGED <<tipMounted, scrollWidth, clientWidth>>
    /\ UNCHANGED notTooltip

\* the cleanup of the effect: observer.disconnect()
TooltipUnmount ==
    /\ tipMounted
    /\ tipMounted' = FALSE
    /\ isTruncated' = FALSE
    /\ observed' = FALSE
    /\ notified' = FALSE
    /\ UNCHANGED <<scrollWidth, clientWidth>>
    /\ UNCHANGED notTooltip

NextTooltip == TooltipMount \/ Resize \/ ObserverCallback \/ TooltipUnmount
SpecTooltip == InitTooltip /\ [][NextTooltip]_vars

(***************************************************************************)
(* The OAuth callback: GET of app/auth/callback/route.ts, one step per     *)
(* await.                                                                  *)
(***************************************************************************)
Codes == { NoParam, Param(<<>>), Param(<<"c", "0", "d", "e">>) }
NextParams ==
    { NoParam, Param(<<>>), Param(<<"/", "p", "r", "o", "v", "i", "d", "e", "r", "s">>), Param(<<"/", "/", "e", "v", "i", "l", ".", "t", "e", "s", "t">>),
      Param(<<"f", "a", "c", "i", "l", "i", "t", "i", "e", "s">>),
      Param(<<"/", "f", "a", "c", "i", "l", "i", "t", "i", "e", "s", "?", "t", "a", "b", "=", "1">>),
      Param(<<"/", "\\", "e", "v", "i", "l", ".", "t", "e", "s", "t">>),
      Param(<<"/", "\t", "/", "e", "v", "i", "l", ".", "t", "e", "s", "t", "/", "l", "o", "g", "i", "n">>),
      Param(<<"/", "\\">>) }

\* the accounts a code may belong to
Users ==
    { NoUser,
      User(NoEmail),
      User(Email(<<"a", "m", "y", "@", "v", "e", "s", "t", "a", "s", "o", "l", "u", "t", "i", "o", "n", "s", ".", "c", "o", "m">>)),
      User(Email(<<"B", "o", "@", "V", "e", "s", "t", "a", "T", "e", "l", "e", "m", "e", "d", ".", "C", "O", "M">>)),
      User(Email(<<"c", "y", "@", "g", "m", "a", "i", "l", ".", "c", "o", "m">>)),
      User(Email(<<"d", "e", "e", "@", "v", "e", "s", "t", "a", "s", "o", "l", "u", "t", "i", "o", "n", "s", ".", "c", "o", "m", "@", "e", "v", "i", "l", ".", "t", "e", "s", "t">>)),
      User(Email(<<"e", "v", "e", "@", "e", "v", "i", "l", ".", "t", "e", "s", "t", "@", "v", "e", "s", "t", "a", "s", "o", "l", "u", "t", "i", "o", "n", "s", ".", "c", "o", "m">>)),
      User(Email(<<"v", "e", "s", "t", "a", "s", "o", "l", "u", "t", "i", "o", "n", "s", ".", "c", "o", "m">>)) }

StoredRoles == {"none", "user", "admin", "superadmin"}

InitOAuth ==
    /\ TimelineIdle
    /\ AuditLogIdle
    /\ TooltipIdle
    /\ MissingDocsIdle
    /\ oauthPc = "received"
    /\ request \in [code : Codes, next : NextParams]
    /\ exchangeError = FALSE
    /\ user = NoUser
    /\ events = <<>>
    /\ response = NoResponse
    /\ appRoleStored \in StoredRoles
    /\ roleWrite = NoRoleWrite

\* if (!code) return the oauth_callback_failed redirect
MissingCode ==
    /\ oauthPc = "received"
    /\ ~TruthyParam(request.code)
    /\ response' = ErrorRedirect("oauth_callback_failed")
    /\ oauthPc' = "done"
    /\ UNCHANGED <<request, exchangeError, user, events, appRoleStored, roleWrite>>
    /\ UNCHANGED notOAuth

\* await supabase.auth.exchangeCodeForSession(code); on error, the
\* oauth_callback_failed redirect
ExchangeCodeForSession ==
    \E error \in BOOLEAN :
        /\ oauthPc = "received"
        /\ TruthyParam(request.code)
        /\ events' = Append(events, "exchangeCodeForSession")
        /\ exchangeError' = error
        /\ response' = IF error THEN ErrorRedirect("oauth_callback_failed") ELSE response
        /\ oauthPc' = IF error THEN "done" ELSE "exchanged"
        /\ UNCHANGED <<request, user, appRoleStored, roleWrite>>
        /\ UNCHANGED notOAuth

\* await supabase.auth.getUser()
GetUser ==
    \E u \in Users :
        /\ oauthPc = "exchanged"
        /\ events' = Append(events, "getUser")
        /\ user' = u
        /\ oauthPc' = "gotUser"
        /\ UNCHANGED <<request, exchangeError, response, appRoleStored, roleWrite>>
        /\ UNCHANGED notOAuth

\* a rejection that redirects without ending the session
SignOut_Skipped ==
    /\ oauthPc = "gotUser"
    /\ DomainRejected(user)
    /\ oauthPc' = "signedOut"
    /\ UNCHANGED <<request, exchangeError, user, events, response, appRoleStored, roleWrite>>
    /\ UNCHANGED notOAuth

\* await supabase.auth.signOut()
SignOut ==
    /\ oauthPc = "gotUser"
    /\ DomainRejected(user)
    /\ events' = Append(events, "signOut")
    /\ oauthPc' = "signedOut"
    /\ UNCHANGED <<request, exchangeError, user, response, appRoleStored, roleWrite>>
    /\ UNCHANGED notOAuth

\* return the domain_not_allowed redirect
RejectDomain ==
    /\ oauthPc = "signedOut"
    /\ response' = ErrorRedirect("domain_not_allowed")
    /\ oauthPc' = "done"
    /\ UNCHANGED <<request, exchangeError, user, events, appRoleStored, roleWrite>>
    /\ UNCHANGED notOAuth

\* await adminClient.auth.admin.updateUserById(user.id, ...): the result is
\* not looked at, so a failed write goes unnoticed
UpdateUserById ==
    \E error \in BOOLEAN :
        /\ oauthPc = "gotUser"
        /\ ~DomainRejected(user)
        /\ events' = Append(events, "updateUserById")
        /\ appRoleStored' =
              IF error THEN appRoleStored ELSE getAppRole(user.email, NoMetadataRole)
        /\ roleWrite' =
              [called |-> TRUE, role |-> getAppRole(user.email, NoMetadataRole),
               error |-> error]
        /\ oauthPc' = "roleWritten"
        /\ UNCHANGED <<request, exchangeError, user, response>>
        /\ UNCHANGED notOAuth

\* return NextResponse.redirect(new URL(nextPath, baseUrl))
RedirectNext ==
    /\ oauthPc = "roleWritten"
    /\ response' =
          IF NewURL(nextPath(request.next), BaseHost).ok
          THEN NextRedirect(nextPath(request.next))
          ELSE response
    \* new URL throws: GET returns no response
    /\ oauthPc' = IF NewURL(nextPath(request.next), BaseHost).ok THEN "done" ELSE "threw"
    /\ UNCHANGED <<request, exchangeError, user, events, appRoleStored, roleWrite>>
    /\ UNCHANGED notOAuth

NextOAuth ==
    \/ MissingCode \/ ExchangeCodeForSession \/ GetUser \/ SignOut \/ RejectDomain
    \/ UpdateUserById \/ RedirectNext
SpecOAuth == InitOAuth /\ [][NextOAuth]_vars

(***************************************************************************)
(* MissingDocsManager: the editor and the calls of save.  save is async:   *)
(* the user goes on using the editor while it awaits the mutation and      *)
(* onChanged.                                                              *)
(***************************************************************************)
\* the documents of the list: one whose information is null
Docs ==
    { [id |-> <<"d", "1">>, information |-> NullString,
       roadblocks |-> String(<<"l", "a", "t", "e">>), nextFollowUp |-> NullString] }

\* what the user types into the information field
Typed == { <<" ", "\t">>, <<" ", "I", "D", " ">> }

\* the component as mounted: editor closed, save not yet called
InitMissingDocs ==
    /\ TimelineIdle
    /\ AuditLogIdle
    /\ TooltipIdle
    /\ OAuthIdle
    /\ isEditing = FALSE
    /\ editingId = NullString
    /\ form = defaultForm
    /\ saves = <<>>
    /\ calls = <<>>

\* resetEditor as a state change
EditorReset ==
    /\ isEditing' = FALSE
    /\ editingId' = NullString
    /\ form' = defaultForm

BeginCreate ==
    /\ isEditing' = TRUE
    /\ editingId' = NullString
    /\ form' = defaultForm
    /\ UNCHANGED <<saves, calls>>
    /\ UNCHANGED notMissingDocs

BeginEdit ==
    \E doc \in Docs :
        /\ isEditing' = TRUE
        /\ editingId' = String(doc.id)
        /\ form' = [information |-> OrEmpty(doc.information),
                    roadblocks |-> OrEmpty(doc.roadblocks),
                    nextFollowUp |-> OrEmpty(doc.nextFollowUp)]
        /\ UNCHANGED <<saves, calls>>
        /\ UNCHANGED notMissingDocs

\* setForm((s) => ({ ...s, information: e.target.value }))
SetInformation ==
    \E value \in Typed \ {form.information} :
        /\ isEditing
        /\ form' = [form EXCEPT !.information = value]
        /\ UNCHANGED <<isEditing, editingId, saves, calls>>
        /\ UNCHANGED notMissingDocs

\* the Cancel button: resetEditor
Cancel ==
    /\ isEditing
    /\ EditorReset
    /\ UNCHANGED <<saves, calls>>
    /\ UNCHANGED notMissingDocs

\* save(), up to its first await.  The handler is modelled for every state
\* of the open editor; `enabled` records whether the Save button would take
\* the click.
Save ==
    /\ isEditing
    /\ Len(saves) < MaxSaves
    /\ saves' = Append(saves,
          [stage |-> IF InformationBlank(form) THEN "returned" ELSE "mutating",
           information |-> form.information,
           editingId |-> editingId,
           enabled |-> ~SaveDisabled])
    /\ calls' = Append(calls,
          IF InformationBlank(form) THEN <<>>
          ELSE << [name |-> IF EditingIdSet(editingId) THEN "updateMutation"
                            ELSE "createMutation",
                   id |-> editingId,
                   payload |-> Payload(form)] >>)
    /\ UNCHANGED <<isEditing, editingId, form>>
    /\ UNCHANGED notMissingDocs

\* a rejection after which onChanged is called all the same
MutationRejects_CallsOnChanged ==
    \E i \in 1..Len(saves) :
        /\ saves[i].stage = "mutating"
        /\ saves' = [saves EXCEPT ![i].stage = "rejected"]
        /\ calls' = [calls EXCEPT ![i] = Append(@, [name |-> "onChanged"])]
        /\ UNCHANGED <<isEditing, editingId, form>>
        /\ UNCHANGED notMissingDocs

\* mutateAsync rejects: save ends there
MutationRejects ==
    \E i \in 1..Len(saves) :
        /\ saves[i].stage = "mutating"
        /\ saves' = [saves EXCEPT ![i].stage = "rejected"]
        /\ UNCHANGED <<isEditing, editingId, form, calls>>
        /\ UNCHANGED notMissingDocs

\* mutateAsync resolves: await onChanged()
MutationResolves ==
    \E i \in 1..Len(saves) :
        /\ saves[i].stage = "mutating"
        /\ saves' = [saves EXCEPT ![i].stage = "changing"]
        /\ calls' = [calls EXCEPT ![i] = Append(@, [name |-> "onChanged"])]
        /\ UNCHANGED <<isEditing, editingId, form>>
        /\ UNCHANGED notMissingDocs

\* onChanged resolves: resetEditor()
OnChangedResolves ==
    \E i \in 1..Len(saves) :
        /\ saves[i].stage = "changing"
        /\ saves' = [saves EXCEPT ![i].stage = "done"]
        /\ calls' = [calls EXCEPT ![i] = Append(@, [name |-> "resetEditor"])]
        /\ EditorReset
        /\ UNCHANGED notMissingDocs

\* onChanged rejects: save ends without resetEditor
OnChangedRejects ==
    \E i \in 1..Len(saves) :
        /\ saves[i].stage = "changing"
        /\ saves' = [saves EXCEPT ![i].stage = "changeFailed"]
        /\ UNCHANGED <<isEditing, editingId, form, calls>>
        /\ UNCHANGED notMissingDocs

NextMissingDocs ==
    \/ BeginCreate \/ BeginEdit \/ SetInformation \/ Cancel \/ Save
    \/ MutationRejects \/ MutationResolves \/ OnChangedResolves \/ OnChangedRejects
SpecMissingDocs == InitMissingDocs /\ [][NextMissingDocs]_vars

(***************************************************************************)
(* C25.  A call of save with a blank (whitespace-only) information field   *)
(* calls no mutation and changes no state.  Any other call of save calls   *)
(* the update mutation exactly when editingId is set and the create        *)
(* mutation exactly when it is not, then onChanged, then resetEditor, in   *)
(* that order.  When the mutation rejects, onChanged is not called, and    *)
(* the rejection leaves isEditing, the form and editingId as they are.     *)
(***************************************************************************)
\* the names of the calls made by the i-th call of save, in order
CallsOf(log, i) == [k \in 1..Len(log[i]) |-> log[i][k].name]

MutationOf(s) == IF EditingIdSet(s.editingId) THEN "updateMutation" ELSE "createMutation"

\* the calls a call of save has made when it stands at a stage
CallsAt(s) ==
    CASE s.stage = "returned" -> <<>>
      [] s.stage \in {"mutating", "rejected"} -> <<MutationOf(s)>>
      [] s.stage \in {"changing", "changeFailed"} -> <<MutationOf(s), "onChanged">>
      [] s.stage = "done" -> <<MutationOf(s), "onChanged", "resetEditor">>

SaveCallsInOrder ==
    /\ Len(calls) = Len(saves)
    /\ \A i \in 1..Len(saves) :
          /\ (saves[i].stage = "returned") <=> (Trim(saves[i].information) = <<>>)
          /\ CallsOf(calls, i) = CallsAt(saves[i])
            /\ \A k \in 1..Len(calls[i]) :
                calls[i][k].name \in {"updateMutation", "createMutation"}
                    => /\ calls[i][k].id = saves[i].editingId
                       /\ calls[i][k].payload.information = saves[i].information

EditorUntouched == UNCHANGED <<isEditing, editingId, form>>

SaveStep ==
    /\ Len(saves') = Len(saves) + 1 /\ saves'[Len(saves')].stage = "returned"
           => EditorUntouched /\ calls' = Append(calls, <<>>)
    /\ \A i \in 1..Len(saves) :
          /\ saves[i].stage # "rejected" /\ saves'[i].stage = "rejected"
                 => EditorUntouched /\ calls' = calls
          /\ saves[i].stage # "done" /\ saves'[i].stage = "done"
                 => isEditing' = FALSE /\ editingId' = NullString /\ form' = defaultForm

C25_SaveCallsInOrder == [](SaveCallsInOrder) /\ [][SaveStep]_vars

\* an update goes through all three calls from an enabled Save button, a
\* create is rejected with the editor left open on what was typed, and a
\* blank save has returned
C25_Witness ==
    /\ \E i \in 1..Len(saves) :
          /\ saves[i].stage = "done" /\ saves[i].enabled
          /\ EditingIdSet(saves[i].editingId)
          /\ CallsOf(calls, i) = <<"updateMutation", "onChanged", "resetEditor">>
    /\ \E i \in 1..Len(saves) :
          /\ saves[i].stage = "rejected" /\ saves[i].enabled
          /\ ~EditingIdSet(saves[i].editingId)
          /\ CallsOf(calls, i) = <<"createMutation">>
          /\ isEditing /\ form.information = saves[i].information /\ editingId = NullString
    /\ \E i \in 1..Len(saves) : saves[i].stage = "returned"


\* the timeline with its expandable rows
NextDiff == Render \/ ToggleExpand
SpecDiff == Init /\ [][NextDiff]_vars

Spec == Init /\ [][Next]_vars

(***************************************************************************)
(* What the properties below speak of.                                     *)
(***************************************************************************)
Rendered == pc = "rendered"
OldData == entry.oldData
NewData == entry.newData
Entity == humanizeTableName(entry.tableName)
BothSnapshots == ~OldData.isNull /\ ~NewData.isNull
UpdateRendered == Rendered /\ rowAction = "update" /\ BothSnapshots
OldStatus == IF OldData.isNull THEN Undefined ELSE Get(OldData, K_status)
NewStatus == IF NewData.isNull THEN Undefined ELSE Get(NewData, K_status)

RangeOf(seq) == { seq[i] : i \in 1..Len(seq) }
MinOf(set) == CHOOSE i \in set : \A j \in set : i <= j

\* the summaries, as the specification words them
CreatedPlain(e) == <<"C", "r", "e", "a", "t", "e", "d", " ">> \o e
DeletedPlain(e) == <<"D", "e", "l", "e", "t", "e", "d", " ">> \o e
UpdatedPlain(e) == <<"U", "p", "d", "a", "t", "e", "d", " ">> \o e
Quoted(chars) == <<" ", "\"">> \o chars \o <<"\"">>
StatusLine(e, old, new) ==
    e \o <<" ", "s", "t", "a", "t", "u", "s", ":", " ">> \o old \o <<" ", "→", " ">> \o new
ShownAs(v) == IF v.t = "string" THEN v.s ELSE <<"n", "u", "l", "l">>

\* the identifying fields in their priority order
ProbeOrder == <<K_phase_name, K_state, K_name, K_privilege_tier, K_subcategory>>

\* the first identifying field of a snapshot that holds a value (neither
\* missing nor null), or undefined when there is none
FirstPresent(snap) ==
    LET set == { i \in 1..Len(ProbeOrder) :
                    OptGet(snap, ProbeOrder[i]).t \notin {"undefined", "null"} }
    IN  IF set = {} THEN Undefined ELSE OptGet(snap, ProbeOrder[MinOf(set)])

\* the identifier a summary shows: what follows "Created " or "Deleted "
AfterVerb(text) == SubSeq(text, 9, Len(text))

(***************************************************************************)
(* C1.                                                                     *)
(***************************************************************************)
\* C1 as stated: for an update with both snapshots, whenever the values of
\* "status" differ between oldData and newData, missing or null on one side
\* included, the summary is `<Entity> status: <old> -> <new>`.
C1_StatusLineWheneverStatusDiffers ==
    (UpdateRendered /\ OldStatus # NewStatus)
        => \E old, new \in {ShownAs(OldStatus), ShownAs(NewStatus),
                            <<"u", "n", "d", "e", "f", "i", "n", "e", "d">>, <<>>} :
              description = StatusLine(Entity, old, new)

\* C1, amended: for an update with both snapshots, whenever "status" is a key
\* of both oldData and newData (a string or null on either side) and the two
\* values differ, the summary is exactly `<Entity> status: <old> -> <new>`
\* (null shown as "null"), whatever other fields changed and however many.
C1_StatusLineWhenBothPresent ==
    (UpdateRendered /\ OldStatus # Undefined /\ NewStatus # Undefined
        /\ OldStatus # NewStatus)
        => description = StatusLine(Entity, ShownAs(OldStatus), ShownAs(NewStatus))

\* a status change from null, with four more fields changed
C1_Witness ==
    /\ UpdateRendered
    /\ OldStatus = Null
    /\ NewStatus.t = "string"
    /\ Len(changed) >= 5
    /\ description = StatusLine(Entity, <<"n", "u", "l", "l">>, NewStatus.s)

(***************************************************************************)
(* C2.                                                                     *)
(***************************************************************************)
\* the first identifying field of a snapshot that holds a non-empty value
FirstNonEmpty(snap) ==
    LET set == { i \in 1..Len(ProbeOrder) :
                    /\ OptGet(snap, ProbeOrder[i]).t = "string"
                    /\ OptGet(snap, ProbeOrder[i]).s # <<>> }
    IN  IF set = {} THEN Undefined ELSE OptGet(snap, ProbeOrder[MinOf(set)])

\* C2: an insert summary is `Created <Entity> "<value>"` with the value of the
\* first of phase_name, state, name, privilege_tier, subcategory that newData
\* holds (a field that is missing, null or empty holds nothing), and it is the
\* bare `Created <Entity>` only when newData holds none of the five.
C2_QuotesFirstPresentField ==
    (Rendered /\ rowAction = "insert")
        => description =
              IF FirstNonEmpty(NewData) # Undefined
              THEN CreatedPlain(Entity) \o Quoted(FirstNonEmpty(NewData).s)
              ELSE CreatedPlain(Entity)

\* What the insert branch does: it stops at the first of the five fields that
\* is neither missing nor null, and quotes it unless it is the empty string.
C2_CodeQuotesFirstNonNull ==
    (Rendered /\ rowAction = "insert")
        => description =
              IF FirstPresent(NewData) # Undefined /\ FirstPresent(NewData).s # <<>>
              THEN CreatedPlain(Entity) \o Quoted(FirstPresent(NewData).s)
              ELSE CreatedPlain(Entity)

(***************************************************************************)
(* C3.                                                                     *)
(***************************************************************************)
\* C3: a delete summary is `Deleted <Entity> "<value>"` with the first
\* identifying field of oldData that holds a non-empty value, in the priority
\* order of the five identifying fields, and `Deleted <Entity>` when oldData
\* has none; newData plays no part.
C3_DeleteQuotesFirstIdentifier ==
    (Rendered /\ rowAction = "delete")
        => description =
              IF FirstPresent(OldData) # Undefined /\ FirstPresent(OldData).s # <<>>
              THEN DeletedPlain(Entity) \o Quoted(FirstPresent(OldData).s)
              ELSE DeletedPlain(Entity)

(***************************************************************************)
(* C4.                                                                     *)
(***************************************************************************)
\* C4: the identifier a delete summary shows for a snapshot S is the one an
\* insert summary shows for the same S, also when subcategory is the only
\* identifying field of S.
C4_DeleteSearchIsInsertSearch ==
    (Rendered /\ rowAction = "delete")
        => AfterVerb(description) =
              AfterVerb(buildDescription("insert", entry.tableName, NullSnap, OldData))

(***************************************************************************)
(* C5 - C7: the changed fields of an update.                               *)
(***************************************************************************)
RECURSIVE SpacedName(_)
\* a field name with every underscore turned into a space
SpacedName(chars) ==
    IF chars = <<>> THEN <<>>
    ELSE <<IF Head(chars) = "_" THEN " " ELSE Head(chars)>> \o SpacedName(Tail(chars))

\* the keys of newData whose serialized value differs from that of the same
\* key of oldData, in the key order of newData
DifferingKeys ==
    LET differs(key) ==
            JSONStringify(Get(OldData, key)) # JSONStringify(Get(NewData, key))
    IN  SelectSeq(ObjectKeys(NewData), differs)

DifferingNames == [i \in 1..Len(DifferingKeys) |-> SpacedName(DifferingKeys[i])]

StatusUnchanged == K_status \notin RangeOf(DifferingKeys)

Numeral(n) == <<"1", "2", "3", "4", "5", "6", "7", "8", "9">>[n]

\* C5: for an update with both snapshots and no changed status field, when 1
\* to 3 keys of newData changed the summary is `Updated <Entity>: ` followed
\* by exactly those field names, underscores shown as spaces, joined by ", "
\* (in the key order of newData).
C5_ListsChangedFields ==
    (UpdateRendered /\ StatusUnchanged /\ Len(DifferingKeys) \in 1..3)
        => description =
              UpdatedPlain(Entity) \o <<":", " ">>
                \o DifferingNames[1]
                \o (IF Len(DifferingKeys) >= 2 THEN <<",", " ">> \o DifferingNames[2] ELSE <<>>)
                \o (IF Len(DifferingKeys) >= 3 THEN <<",", " ">> \o DifferingNames[3] ELSE <<>>)

\* three changed fields, one of them with two underscores in its name, listed
\* in an order that is not the key order of oldData
C5_Witness ==
    /\ UpdateRendered /\ StatusUnchanged /\ Len(DifferingKeys) = 3
    /\ GenericFields[3] \in RangeOf(DifferingKeys)
    /\ \E i, j \in 1..Len(ObjectKeys(OldData)) :
          /\ i < j
          /\ \E m, n \in 1..3 :
                m > n /\ DifferingKeys[m] = ObjectKeys(OldData)[i]
                      /\ DifferingKeys[n] = ObjectKeys(OldData)[j]
    /\ description = UpdatedPlain(Entity) \o <<":", " ">> \o Join(changed, <<",", " ">>)

\* C6: for an update with both snapshots in which 4 or more fields changed and
\* status did not, the summary is `Updated <Entity>: N fields changed`, N the
\* number of changed fields.
C6_CountsChangedFields ==
    (UpdateRendered /\ StatusUnchanged /\ Len(DifferingKeys) >= 4)
        => description =
              UpdatedPlain(Entity) \o <<":", " ">> \o <<Numeral(Len(DifferingKeys))>>
                \o <<" ", "f", "i", "e", "l", "d", "s", " ", "c", "h", "a", "n", "g", "e", "d">>

\* four changed fields while an unchanged status is part of both snapshots
C6_Witness ==
    /\ UpdateRendered /\ StatusUnchanged /\ Len(DifferingKeys) = 4
    /\ OldStatus.t = "string" /\ NewStatus = OldStatus
    /\ description =
          UpdatedPlain(Entity)
            \o <<":", " ", "4", " ", "f", "i", "e", "l", "d", "s", " ", "c", "h", "a", "n",
                 "g", "e", "d">>

\* C7: for an update, the changed fields are exactly the keys of newData whose
\* (serialized) value differs from oldData's: a key that only newData has is
\* among them, a key that only oldData has never is.
C7_ChangedAreDifferingNewKeys ==
    UpdateRendered
        => /\ RangeOf(changed) = RangeOf(DifferingNames)
           /\ Len(changed) = Len(DifferingKeys)
           /\ \A k \in RangeOf(ObjectKeys(NewData)) \ RangeOf(ObjectKeys(OldData)) :
                 SpacedName(k) \in RangeOf(changed)
           /\ \A k \in RangeOf(ObjectKeys(OldData)) \ RangeOf(ObjectKeys(NewData)) :
                 SpacedName(k) \notin RangeOf(changed)

\* an update that added one field, removed another and kept a third
C7_Witness ==
    /\ UpdateRendered
    /\ \E k \in RangeOf(ObjectKeys(NewData)) \ RangeOf(ObjectKeys(OldData)) :
          SpacedName(k) \in RangeOf(changed)
    /\ \E k \in RangeOf(ObjectKeys(OldData)) \ RangeOf(ObjectKeys(NewData)) :
          SpacedName(k) \notin RangeOf(changed)
    /\ \E k \in RangeOf(ObjectKeys(OldData)) \cap RangeOf(ObjectKeys(NewData)) :
          SpacedName(k) \notin RangeOf(changed)

(***************************************************************************)
(* C8.                                                                     *)
(***************************************************************************)
\* two values are equal as data: objects as mappings, whatever the order of
\* their keys
SameValue(a, b) ==
    IF a.t = "object" /\ b.t = "object"
    THEN RangeOf(a.o) = RangeOf(b.o) /\ Len(a.o) = Len(b.o)
    ELSE a = b

\* two snapshots are structurally identical
SameSnapshot(old, new) ==
    \/ old.isNull /\ new.isNull
    \/ /\ ~old.isNull /\ ~new.isNull
       /\ RangeOf(ObjectKeys(old)) = RangeOf(ObjectKeys(new))
       /\ \A k \in RangeOf(ObjectKeys(new)) : SameValue(Get(old, k), Get(new, k))

\* C8: for an update whose oldData and newData are structurally identical,
\* whatever the key order inside nested objects, the summary is exactly
\* `Updated <Entity>` and no field is reported as changed.
C8_IdenticalSnapshotsNoChange ==
    (Rendered /\ rowAction = "update" /\ SameSnapshot(OldData, NewData))
        => description = UpdatedPlain(Entity) /\ changed = <<>>

(***************************************************************************)
(* C9.                                                                     *)
(***************************************************************************)
\* the same snapshot with its keys in other orders
KeyOrders(snap) ==
    IF snap.isNull \/ snap.f = <<>> THEN {snap}
    ELSE {snap, Snap(Reverse(snap.f)), Snap(Tail(snap.f) \o <<Head(snap.f)>>)}

\* the orders in which the names of a list can be written
Orderings(names) ==
    { [i \in 1..Len(names) |-> names[p[i]]] :
        p \in { q \in [1..Len(names) -> 1..Len(names)] :
                  \A i, j \in 1..Len(names) : q[i] = q[j] => i = j } }

\* C9 as stated: a call on the same key/value pairs in another key order
\* returns the same summary.
C9_SameSummaryInAnyKeyOrder ==
    Rendered
        => \A o \in KeyOrders(OldData), n \in KeyOrders(NewData) :
              buildDescription(entry.action, entry.tableName, o, n) = description

\* C9, amended: a call on the same key/value pairs in another (top-level) key
\* order returns the same summary, except when 2 or 3 fields changed without a
\* status change: then both summaries are `Updated <Entity>: ` followed by the
\* same field names, each call listing them in the key order of its newData.
C9_SameSummaryUpToListOrder ==
    Rendered
        => \A o \in KeyOrders(OldData), n \in KeyOrders(NewData) :
              \/ buildDescription(entry.action, entry.tableName, o, n) = description
              \/ /\ UpdateRendered /\ Len(changed) \in 2..3
                 /\ description =
                       UpdatedPlain(Entity) \o <<":", " ">> \o Join(changed, <<",", " ">>)
                 /\ \E other \in Orderings(changed) :
                       buildDescription(entry.action, entry.tableName, o, n) =
                          UpdatedPlain(Entity) \o <<":", " ">> \o Join(other, <<",", " ">>)

\* three changed fields: the call on the reversed newData lists them the other
\* way round
C9_Witness ==
    /\ UpdateRendered /\ Len(changed) = 3
    /\ buildDescription(entry.action, entry.tableName, OldData, Snap(Reverse(NewData.f)))
          = UpdatedPlain(Entity) \o <<":", " ">> \o Join(Reverse(changed), <<",", " ">>)
    /\ buildDescription(entry.action, entry.tableName, OldData, Snap(Reverse(NewData.f)))
          # description

(***************************************************************************)
(* C10.                                                                    *)
(***************************************************************************)
Formatted == formattedAction # "none"

\* the three stored actions as themselves, anything else as update
ThreeOrUpdate(action) ==
    IF action \in {"insert", "update", "delete"} THEN action ELSE "update"

\* C10 as stated: both normalizers map insert, delete and update to
\* themselves and every other string to update, and agree on every input.
C10_NormalizersAgree ==
    /\ Rendered => rowAction = ThreeOrUpdate(entry.action)
    /\ Formatted => formattedAction = ThreeOrUpdate(entry.action)
    /\ (Rendered /\ Formatted) => rowAction = formattedAction

\* C10, amended: both normalizers map insert, delete and update to themselves;
\* the timeline's also maps "create" to insert, which the audit-log table's
\* maps to update; every other string is update for both; so the two agree on
\* every input except "create".
C10_NormalizersAgreeExceptCreate ==
    /\ Rendered =>
          rowAction = IF entry.action = "create" THEN "insert"
                      ELSE ThreeOrUpdate(entry.action)
    /\ Formatted => formattedAction = ThreeOrUpdate(entry.action)
    /\ (Rendered /\ Formatted) =>
          (rowAction = formattedAction <=> entry.action # "create")

\* a "create" row, shown as an insert by the timeline and as an update by the
\* audit-log table
C10_Witness ==
    /\ Rendered /\ Formatted
    /\ entry.action = "create"
    /\ rowAction = "insert"
    /\ formattedAction = "update"

(***************************************************************************)
(* Entity labels                                                           *)
(***************************************************************************)
LabelledTables == { TABLE_LABELS[i][1] : i \in 1..Len(TABLE_LABELS) }
MappedLabel(table) ==
    TABLE_LABELS[CHOOSE i \in 1..Len(TABLE_LABELS) : TABLE_LABELS[i][1] = table][2]

\* the label the specification gives a table name
SpecLabel(table) ==
    IF table \in LabelledTables THEN MappedLabel(table) ELSE SpacedName(table)

\* `label` stands in `text` from position `from` on, and ends where it should:
\* at the end of the text or before a space or a colon
LabelAt(text, from, label) ==
    /\ Len(text) >= from - 1 + Len(label)
    /\ SubSeq(text, from, from - 1 + Len(label)) = label
    /\ Len(text) > from - 1 + Len(label) => text[from + Len(label)] \in {" ", ":"}

\* the status line starts with the entity label, every other summary with a
\* verb of seven letters and a space
IsStatusLine ==
    /\ UpdateRendered
    /\ DifferingKeys # <<>>
    /\ OldStatus.t # "undefined" /\ NewStatus.t # "undefined" /\ OldStatus # NewStatus

C12_MissingSnapshotGeneric ==
    Rendered =>
        /\ rowAction = "insert" /\ NewData.isNull
                => description = CreatedPlain(SpecLabel(entry.tableName))
        /\ rowAction = "delete" /\ OldData.isNull
                => description = DeletedPlain(SpecLabel(entry.tableName))
        /\ rowAction = "update" /\ (OldData.isNull \/ NewData.isNull)
                => description = UpdatedPlain(SpecLabel(entry.tableName))

\* an update row whose oldData is missing while newData holds fields
C12_Witness ==
    /\ Rendered
    /\ rowAction = "update"
    /\ OldData.isNull
    /\ ~NewData.isNull /\ Len(NewData.f) > 0
    /\ description = UpdatedPlain(SpecLabel(entry.tableName))

C15_RecordUnchanged ==
    [][pc = "fetched" /\ pc' = "rendered" => entry' = entry]_vars

\* an update row with both snapshots, several keys and changed fields has
\* been described
C15_Witness ==
    /\ UpdateRendered
    /\ Len(NewData.f) >= 2
    /\ Len(OldData.f) >= 2
    /\ Len(changed) >= 2

(***************************************************************************)
(* The field diff                                                          *)
(***************************************************************************)
KeysOf(snap) == RangeOf(ObjectKeys(snap))
PanelOpen == Rendered /\ expanded /\ (~OldData.isNull \/ ~NewData.isNull)
RowsFor(key) == { i \in 1..Len(panel.rows) : panel.rows[i].fieldName = key }

AllMatching == Matching(filterAction, Query.size)
ActionsOf(rows, a) == { i \in 1..Len(rows) : rows[i].action = a }
ActorsOf(rows) == { rows[i].actorEmail : i \in 1..Len(rows) } \ {<<>>}
ResultShown == mounted /\ HasResult

\* C17: the Inserts, Updates, Deletes and Unique-users figures of the stats
\* bar are computed over all entries matching the current filters, not over
\* the rows of the current page: the three action counts add up to the Total
\* entries figure.
C17_StatsOverAllMatching ==
    ResultShown =>
        /\ InsertCount = Cardinality(ActionsOf(AllMatching, "insert"))
        /\ UpdateCount = Cardinality(ActionsOf(AllMatching, "update"))
        /\ DeleteCount = Cardinality(ActionsOf(AllMatching, "delete"))
        /\ UniqueUsers = Cardinality(ActorsOf(AllMatching))
        /\ InsertCount + UpdateCount + DeleteCount = TotalCount

\* what the code keeps to: the figures are those of the rows of the page
C17_StatsOverPageRows ==
    ResultShown =>
        /\ InsertCount = Cardinality(ActionsOf(Result.rows, "insert"))
        /\ UpdateCount = Cardinality(ActionsOf(Result.rows, "update"))
        /\ DeleteCount = Cardinality(ActionsOf(Result.rows, "delete"))
        /\ UniqueUsers = Cardinality(ActorsOf(Result.rows))
        /\ InsertCount + UpdateCount + DeleteCount = Len(Result.rows)
        /\ Len(Result.rows) <= PAGE_SIZE

(***************************************************************************)
(* The tooltip follows the truncation                                      *)
(***************************************************************************)
\* the observer has nothing left to deliver
Settled == tipMounted /\ ~notified

\* C18: TruncatedTooltip shows the tooltip wrapper only when the child text
\* is truncated: after the mount and after every later layout change of the
\* child, once the observer has delivered what it has, the tooltip is
\* rendered exactly when scrollWidth exceeds clientWidth, also after the
\* component has switched between its two renderings.
C18_TooltipIffTruncated ==
    Settled => (isTruncated <=> Truncated(scrollWidth, clientWidth))

\* what the code keeps to: while the element mounted first is still the one
\* in the document, the tooltip follows the truncation
C18_FollowsWhileObserved ==
    (Settled /\ observed) => (isTruncated <=> Truncated(scrollWidth, clientWidth))

(***************************************************************************)
(* The OAuth callback                                                      *)
(***************************************************************************)
Called(name) == \E i \in 1..Len(events) : events[i] = name
Responded == oauthPc = "done"

AtSigns(chars) == { i \in 1..Len(chars) : chars[i] = "@" }
PlainlyAllowed(chars) ==
    /\ Cardinality(AtSigns(chars)) = 1
    /\ LET at == CHOOSE i \in AtSigns(chars) : TRUE
       IN  ToLowerCase(SubSeq(chars, at + 1, Len(chars))) \in RangeOf(allowedDomains)

\* C20: when the exchange succeeded but the user is missing or the email is
\* not in an allowed domain, signOut is called before the redirect to
\* /?error=domain_not_allowed and no role is written for the request; when
\* the code is missing or the exchange fails, neither a signOut nor a role
\* write happens.
C20_RejectedIsSignedOut ==
    /\ (Called("getUser") /\ DomainRejected(user) /\ Responded) =>
          /\ response = ErrorRedirect("domain_not_allowed")
          /\ events = <<"exchangeCodeForSession", "getUser", "signOut">>
    /\ response = ErrorRedirect("domain_not_allowed") =>
          /\ Called("signOut") /\ ~Called("updateUserById")
          /\ ~exchangeError /\ DomainRejected(user)
    /\ (Called("getUser") /\ DomainRejected(user)) => ~Called("updateUserById")
    /\ (Called("getUser") /\ user.isNull) => DomainRejected(user)
    /\ (Called("getUser") /\ ~user.isNull /\ ~user.email.given) => DomainRejected(user)
    /\ (Called("getUser") /\ ~user.isNull /\ user.email.given
           /\ Cardinality(AtSigns(user.email.s)) <= 1)
          => (DomainRejected(user) <=> ~PlainlyAllowed(user.email.s))
    /\ (Responded /\ (~TruthyParam(request.code) \/ exchangeError)) =>
          /\ response = ErrorRedirect("oauth_callback_failed")
          /\ ~Called("signOut") /\ ~Called("updateUserById")
          /\ ~Called("getUser")

\* a user of another domain has been signed out and sent to the error page
C20_Witness ==
    /\ Responded
    /\ ~user.isNull /\ user.email.given /\ ~isAllowedEmail(user.email)
    /\ events = <<"exchangeCodeForSession", "getUser", "signOut">>
    /\ response = ErrorRedirect("domain_not_allowed")

(***************************************************************************)
(* The role the callback writes                                            *)
(***************************************************************************)
LoggedIn == response.kind = "next"

\* the role the email alone gives
EmailRole(chars) ==
    IF EndsWith(ToLowerCase(chars),
                <<"@", "v", "e", "s", "t", "a", "s", "o", "l", "u", "t", "i", "o", "n", "s",
                  ".", "c", "o", "m">>)
    THEN "admin" ELSE "user"

\* C21: the role the callback writes to app_metadata.app_role is derived
\* from the email alone: "admin" exactly when the lower-cased email ends
\* with "@vestasolutions.com" and "user" otherwise, so it is never
\* "superadmin", and any role stored before is overwritten on every
\* successful login.
C21_RoleFromEmailOverwrites ==
    LoggedIn =>
        /\ roleWrite.called
        /\ roleWrite.role = EmailRole(user.email.s)
        /\ roleWrite.role # "superadmin"
        /\ appRoleStored = roleWrite.role

\* what the code keeps to: every successful login sends the role the email
\* gives, whatever role was stored, and the stored role is that role when the
\* write succeeded
C21_SendsRoleFromEmail ==
    LoggedIn =>
        /\ roleWrite.called
        /\ roleWrite.role = EmailRole(user.email.s)
        /\ roleWrite.role \in {"admin", "user"}
        /\ ~roleWrite.error => appRoleStored = roleWrite.role

(***************************************************************************)
(* Where the callback redirects to                                         *)
(***************************************************************************)
\* the `next` parameter is a path of the site, as the claim words it
StartsWithOneSlash(param) ==
    /\ param.given
    /\ Len(param.s) >= 1 /\ param.s[1] = "/"
    /\ ~(Len(param.s) >= 2 /\ param.s[2] = "/")

\* C22: the path the callback redirects to on success is the `next`
\* parameter only when that parameter starts with "/" and does not start
\* with "//"; for a missing, empty, relative or absolute-URL value it is "/";
\* so the redirect always stays on the host of the base URL.
C22_NextStaysOnHost ==
    LoggedIn =>
        /\ response.path = (IF StartsWithOneSlash(request.next) THEN request.next.s
                            ELSE <<"/">>)
        /\ response.host = BaseHost

\* what the code keeps to: the path handed to new URL is the parameter when it
\* starts with one slash, and "/" otherwise
C22_PathHandedToURL ==
    LoggedIn =>
        response.path = (IF StartsWithOneSlash(request.next) THEN request.next.s
                         ELSE <<"/">>)

(***************************************************************************)
(* Pages and fetches of the audit-log page                                 *)
(***************************************************************************)
\* a fetched result is on screen and no request is under way
ResultSettled == mounted /\ HasResult /\ fetching = {}

\* C23: after any sequence of Previous, Next, Clear-all, filter edits and
\* completed fetches (whose total may shrink or grow), currentPage is a valid
\* page number: 1 <= currentPage <= max(1, ceil(totalCount / 50)).  Read in
\* the claim's favour: for the total of a result that has been fetched for
\* the current filters and page, with no request under way.
C23_CurrentPageValid ==
    ResultSettled =>
        /\ 1 <= currentPage
        /\ currentPage <= MaxInt(1, CeilDiv(TotalCount, PAGE_SIZE))

\* what the code keeps to: the page number never goes below 1, and Next never
\* takes it past the last page of the result it is clicked on
C23_PageAtLeastOne == currentPage >= 1
C23_NextStaysInResult ==
    [][currentPage' > currentPage
          => currentPage' <= MaxInt(1, CeilDiv(TotalCount, PAGE_SIZE))]_vars

\* C24: a fetch of audit-log rows is issued only on mount and when Load or
\* Retry is clicked; editing a filter, clicking Clear-all or clicking Previous
\* or Next changes the query parameters (offset = (currentPage - 1) * 50)
\* without itself issuing a fetch.
C24_FetchOnlyOnMountLoadRetry ==
    [][/\ fetching' \ fetching # {}
            => /\ Mount \/ Load \/ Retry
               /\ fetching' \ fetching =
                     {[action |-> filterAction, limit |-> PAGE_SIZE,
                       offset |-> (currentPage - 1) * PAGE_SIZE]}
       /\ (filterAction' # filterAction \/ currentPage' # currentPage)
            => /\ fetching' = fetching
               /\ cache' = cache
               /\ mounted' = mounted]_vars

\* the page went to 2 and the filter was edited after the first page had been
\* fetched: the query now asks for offset 50 of the inserts, nothing is in
\* flight and nothing was fetched for it
C24_Witness ==
    /\ mounted
    /\ currentPage = 2 /\ filterAction = "insert"
    /\ cache[QueryInput("all", 1)].hasData
    /\ fetching = {}
    /\ \A q \in QueryInputs : q # QueryInput("all", 1) => ~cache[q].hasData
    /\ ~HasResult

====
